---------------------------- MODULE Spec2Model ----------------------------
(***************************************************************************)
(* SD card cloner: the production controller (src/sdcc_cloner.py, class    *)
(* SDCardCloner) and its testable variant (src/cloner_mock.py, class       *)
(* HeadlessCloner).  One state machine per main loop, with the button, the *)
(* clock phase, /sys/block, the log file and every subprocess as the       *)
(* environment.  A step of the model runs from one blocking point of the   *)
(* code (a sleep, a subprocess, a read of the environment) to the next.    *)
(***************************************************************************)
EXTENDS Integers, Sequences, FiniteSets, TLC

VARIABLES
    variant,            \* "prod" (SDCardCloner) or "mock" (HeadlessCloner)
    TEST_MODE,          \* the module flag of cloner_mock.py
    pc,                 \* position of the main loop
    ret,                \* where error_pattern returns to
    btn,                \* TRUE when GPIO.input(BTN_PIN) == GPIO.LOW
    button_pressed,     \* the local of HeadlessCloner.main_loop
    led,                \* output level of the three LED pins
    flash,              \* iterations of error_pattern's loop done so far
    flashOn,            \* the half of the iteration error_pattern is in
    attached,           \* /sys/block as read by the last detection pass
    devices,            \* the list returned by detect_devices
    source, dest,       \* the pair returned by identify_source_dest
    valid,              \* the verdict of validate_clone
    sizes,              \* what get_device_size read for <<source, dest>>
    sectors,            \* sector counts of the devices behind <<source, dest>>
    procs,              \* external processes run in this attempt
    exc,                \* TRUE while an exception propagates
    parts,              \* source partitions found by clone_with_rsync
    k,                  \* index of the partition being cloned
    source_mounted,     \* the local of clone_filesystem
    fstype,             \* the local of clone_with_rsync's loop
    dest_parts,         \* the number in dest_part, for each iteration so far
    unflushed,          \* TRUE while writes of a copy sit in the page cache
    interrupted,        \* TRUE once a KeyboardInterrupt was delivered
    gpio,               \* "setup" until GPIO.cleanup() released the pins
    mounted,            \* mount points currently mounted
    mounts, umounts,    \* mounts performed / umounts run by clone_filesystem
    attemptsThisPress,  \* detection passes started since the last press
    history             \* operator states visited by the current attempt

vars == << variant, TEST_MODE, pc, ret, btn, button_pressed, led, flash,
           flashOn, attached, devices, source, dest, valid, sizes, sectors,
           procs, exc, parts, k, source_mounted, fstype, dest_parts, unflushed,
           interrupted, gpio, mounted, mounts, umounts, attemptsThisPress,
           history >>

-----------------------------------------------------------------------------
(* Bounds of the model *)

MaxAttached == 3
MaxAttempts == 2
MaxParts == 2
MaxList == 3

-----------------------------------------------------------------------------
(* Program constants *)

BTN_PIN == 17
LED_READY == 22
LED_CLONING == 23
LED_DONE == 24
ErrorFlashes == 5
SectorSize == 512

LEDS == {LED_READY, LED_CLONING, LED_DONE}

NoDevice == [device |-> "None"]
Unreadable == -1
NoModelFile == "<absent>"
ModelUnreadable == "<unreadable>"

-----------------------------------------------------------------------------
(* Strings the code inspects are sequences of characters *)

startswith(s, p) == Len(s) >= Len(p) /\ SubSeq(s, 1, Len(p)) = p

\* the match of the glob pattern '*' + p
endswith(s, p) ==
    Len(s) >= Len(p) /\ SubSeq(s, Len(s) - Len(p) + 1, Len(s)) = p

K_sda == << "s", "d", "a" >>
K_sdb == << "s", "d", "b" >>
K_sdc == << "s", "d", "c" >>
K_sdd == << "s", "d", "d" >>
K_sde == << "s", "d", "e" >>
K_loop0 == << "l", "o", "o", "p", "0" >>
K_ram0 == << "r", "a", "m", "0" >>
K_mmcblk0 == << "m", "m", "c", "b", "l", "k", "0" >>

\* names of links in /dev/disk/by-id
L_usb_0 == << "u", "s", "b", "-", "0" >>
L_usb_sdc == << "u", "s", "b", "-", "s", "d", "c" >>

P_loop == << "l", "o", "o", "p" >>
P_ram == << "r", "a", "m" >>
P_mmcblk0 == << "m", "m", "c", "b", "l", "k", "0" >>

-----------------------------------------------------------------------------
(* The environment: entries of /sys/block.  size is the sector count in    *)
(* /sys/block/<name>/size (Unreadable when the read raises), model is the  *)
(* content of device/model, aliases the symbolic links of /dev/disk/by-id  *)
(* that point to the device: the name of the link and the kernel name of   *)
(* its target.                                                             *)

SectorCounts == { 1048576, 2097152, 2097153, 4000000 }

Alias(link, target) == [ link |-> link, target |-> target ]

BlockDevs ==
    [ name : {K_sda, K_sdb}, is_dir : {TRUE}, size : SectorCounts,
      model : {"SanDisk"}, aliases : {<< >>} ]
    \cup { [ name |-> K_sdd, is_dir |-> TRUE, size |-> Unreadable,
            model |-> NoModelFile, aliases |-> << >> ],
          [ name |-> K_sdd, is_dir |-> TRUE, size |-> 2097152,
            model |-> ModelUnreadable, aliases |-> << >> ],
          [ name |-> K_sdc, is_dir |-> TRUE, size |-> 4000000,
            model |-> NoModelFile,
            aliases |-> << Alias(L_usb_sdc, K_sdc) >> ],
          [ name |-> K_sdc, is_dir |-> TRUE, size |-> 4000000,
            model |-> NoModelFile,
            aliases |-> << Alias(L_usb_0, K_sdc) >> ],
          [ name |-> K_sde, is_dir |-> FALSE, size |-> 2097152,
            model |-> NoModelFile, aliases |-> << >> ] }
    \cup [ name : {K_loop0, K_ram0, K_mmcblk0}, is_dir : {TRUE},
           size : {2097152}, model : {NoModelFile}, aliases : {<< >>} ]

AttachedLists ==
    { s \in UNION { [1..n -> BlockDevs] : n \in 0..MaxAttached } :
        \A i, j \in 1..Len(s) : i # j => s[i].name # s[j].name }

\* the sector count of the attached device with this kernel name
SectorsOf(att, name) ==
    LET hit == { i \in 1..Len(att) : att[i].name = name }
    IN  IF hit = {} THEN 0 ELSE att[CHOOSE i \in hit : TRUE].size

-----------------------------------------------------------------------------
(* SDCardCloner.detect_devices *)

\* round((size * 512) / (1024**3), 2) in hundredths of a gigabyte:
\* size * 512 * 100 / 2^30 = size * 25 / 2^19, rounded half to even
size_gb(size) ==
    LET n == size * 25
        q == n \div 524288
        r == n % 524288
    IN  IF r > 262144 \/ (r = 262144 /\ q % 2 = 1) THEN q + 1 ELSE q

\* the scan without the test for the boot device
Excluded_no_boot_check(name) ==
    \/ startswith(name, P_loop)
    \/ startswith(name, P_ram)

\* the pseudo-devices and the boot device skipped by the scan
Excluded(name) ==
    \/ startswith(name, P_loop)
    \/ startswith(name, P_ram)
    \/ startswith(name, P_mmcblk0)

\* the inner try with only the read of the size able to fail
ReadFails_size_only(e) == e.size = Unreadable

\* the entry raises inside the inner try
ReadFails(e) == e.size = Unreadable \/ e.model = ModelUnreadable

\* every link of /dev/disk/by-id, in the order of the entries
RECURSIVE ByIdLinks(_, _)
ByIdLinks(att, i) ==
    IF i > Len(att) THEN << >> ELSE att[i].aliases \o ByIdLinks(att, i + 1)

\* list(Path('/dev/disk/by-id/').glob(f'*{path.name}'))
by_id_glob(att, name) ==
    LET matches(a) == endswith(a.link, name)
    IN  SelectSeq(ByIdLinks(att, 1), matches)

\* Path.resolve() of a link: the path of its target
resolve(a) == [ dir |-> "/dev", name |-> a.target ]

\* the dict appended for an entry, by_id being the result of the glob
DeviceDict(e, by_id) ==
    [ device |-> IF by_id # << >> THEN resolve(by_id[1])
                 ELSE [ dir |-> "/dev", name |-> e.name ],
      name |-> e.name,
      size_gb |-> size_gb(e.size),
      model |-> IF e.model = NoModelFile THEN "Unknown" ELSE e.model ]

RECURSIVE SDCardCloner_scan(_, _)
SDCardCloner_scan(att, i) ==
    IF i > Len(att) THEN << >>
    ELSE LET e == att[i]
             rest == SDCardCloner_scan(att, i + 1)
         IN  IF ~e.is_dir \/ Excluded(e.name) THEN rest
             ELSE IF ReadFails(e) THEN rest
             ELSE << DeviceDict(e, by_id_glob(att, e.name)) >> \o rest

\* listable is FALSE when iterating /sys/block raises (outer try)
SDCardCloner_detect_devices(att, listable) ==
    IF listable THEN SDCardCloner_scan(att, 1) ELSE << >>

-----------------------------------------------------------------------------
(* sorted(devices, key=lambda x: x['size_gb']): a stable sort *)

\* an insertion that puts d in front of the elements of its size
RECURSIVE InsertBySize_before_equal(_, _)
InsertBySize_before_equal(d, s) ==
    IF s = << >> THEN << d >>
    ELSE IF d.size_gb <= s[1].size_gb THEN << d >> \o s
    ELSE << s[1] >> \o InsertBySize_before_equal(d, Tail(s))

RECURSIVE InsertBySize(_, _)
InsertBySize(d, s) ==
    IF s = << >> THEN << d >>
    ELSE IF d.size_gb < s[1].size_gb THEN << d >> \o s
    ELSE << s[1] >> \o InsertBySize(d, Tail(s))

\* the list left in the order of detection
SortedBySize_unsorted(s) == s

RECURSIVE SortedBySize(_)
SortedBySize(s) ==
    IF s = << >> THEN << >>
    ELSE InsertBySize(s[Len(s)], SortedBySize(SubSeq(s, 1, Len(s) - 1)))

\* identify_source_dest accepting a single device
SDCardCloner_identify_source_dest_one(devs) ==
    IF Len(devs) < 1 THEN << NoDevice, NoDevice >>
    ELSE LET sorted_devices == SortedBySize(devs)
         IN  << sorted_devices[1], sorted_devices[Len(sorted_devices)] >>

\* identify_source_dest taking the first element twice
SDCardCloner_identify_source_dest_first_twice(devs) ==
    IF Len(devs) < 2 THEN << NoDevice, NoDevice >>
    ELSE LET sorted_devices == SortedBySize(devs)
         IN  << sorted_devices[1], sorted_devices[1] >>

\* identify_source_dest with the two ends of the sorted list exchanged
SDCardCloner_identify_source_dest_swapped(devs) ==
    IF Len(devs) < 2 THEN << NoDevice, NoDevice >>
    ELSE LET sorted_devices == SortedBySize(devs)
         IN  << sorted_devices[Len(sorted_devices)], sorted_devices[1] >>

(* SDCardCloner.identify_source_dest: the pair of device dicts *)
SDCardCloner_identify_source_dest(devs) ==
    IF Len(devs) < 2 THEN << NoDevice, NoDevice >>
    ELSE LET sorted_devices == SortedBySize(devs)
         IN  << sorted_devices[1], sorted_devices[Len(sorted_devices)] >>

\* validate_clone refusing equal sizes
SDCardCloner_validate_clone_ge(src, dst) ==
    IF src.size_gb >= dst.size_gb
    THEN [ ok |-> FALSE, reason |-> "Source is larger than destination" ]
    ELSE [ ok |-> TRUE, reason |-> "OK" ]

(* SDCardCloner.validate_clone *)
SDCardCloner_validate_clone(src, dst) ==
    IF src.size_gb > dst.size_gb
    THEN [ ok |-> FALSE, reason |-> "Source is larger than destination" ]
    ELSE [ ok |-> TRUE, reason |-> "OK" ]

NoVerdict == [ ok |-> FALSE, reason |-> "not validated" ]

-----------------------------------------------------------------------------
(* LEDs *)

AllOff == [ p \in LEDS |-> FALSE ]

led_on(l, pin) == [ l EXCEPT ![pin] = TRUE ]
led_off(l, pin) == [ l EXCEPT ![pin] = FALSE ]
led_off_all(l) == led_off(led_off(led_off(l, LED_READY), LED_CLONING), LED_DONE)

\* SDCardCloner.blink_ready: toggle the ready LED
SDCardCloner_blink_ready(l) ==
    IF ~l[LED_READY] THEN led_on(l, LED_READY) ELSE led_off(l, LED_READY)

\* the head of the loop body: time.time() % 2 < 0.5 is the clock phase
SDCardCloner_blink(l, phase) ==
    IF phase THEN SDCardCloner_blink_ready(l) ELSE led_off(l, LED_READY)

-----------------------------------------------------------------------------
(* The operator-facing state of a position of the loop *)

DetectingPcs == { "detect", "identify", "validate" }
CloningPcs ==
    { "clone_device", "dd", "start_clone", "clone", "partprobe", "part",
      "raw", "mkfs", "mount_dest", "mount_source", "rsync", "umount_source",
      "umount_dest", "clone_ok", "clone_failed" }

OperatorState ==
    CASE pc \in { "poll", "wait_release", "after_attempt" } -> "Ready"
      [] pc \in DetectingPcs -> "Detecting"
      [] pc \in CloningPcs -> "Cloning"
      [] pc = "done_sleep" -> "Done"
      [] pc = "error_pattern" -> "Error"
      [] pc = "exited" -> "Exited"
      [] OTHER -> "None"

\* tools that copy, format, mount or touch the partition table
CloneTools == { "dd", "sgdisk", "partprobe", "mkfs", "mount", "umount", "rsync" }

CloneProcs == { p \in procs : p.tool \in CloneTools }

\* an external process that ran to its end: the tool, its exit status, the
\* index in the loop over partitions it ran for and that partition's type
Proc(tool, rc, part, fs) ==
    [ tool |-> tool, rc |-> rc, part |-> part, fstype |-> fs ]

-----------------------------------------------------------------------------
(* The state after construction: setup_gpio, or HeadlessCloner.__init__,   *)
(* leaves every LED low                                                    *)

cfgVars == << variant, TEST_MODE >>
envVars == << btn, attemptsThisPress >>
detVars == << attached, devices, source, dest, valid, sizes, sectors >>
errVars == << ret, flash, flashOn >>
execVars == << parts, k, source_mounted, fstype, dest_parts, unflushed,
              mounted, mounts, umounts >>
sigVars == << interrupted, gpio >>

\* no filesystem type read yet
NoFs == "<none>"

ExecIdle ==
    /\ parts = << >> /\ k = 0 /\ source_mounted = FALSE /\ mounted = {}
    /\ fstype = NoFs /\ dest_parts = << >> /\ unflushed = FALSE
    /\ mounts = 0 /\ umounts = 0

InitCommon ==
    /\ pc = "poll" /\ ret = "none"
    /\ btn = FALSE /\ button_pressed = FALSE
    /\ led = AllOff /\ flash = 0 /\ flashOn = FALSE
    /\ attached = << >> /\ devices = << >>
    /\ source = NoDevice /\ dest = NoDevice
    /\ valid = NoVerdict /\ sizes = << 0, 0 >> /\ sectors = << 0, 0 >>
    /\ procs = {} /\ exc = FALSE
    /\ ExecIdle
    /\ interrupted = FALSE /\ gpio = "setup"
    /\ attemptsThisPress = 0 /\ history = << >>

Init ==
    /\ \/ variant = "prod" /\ TEST_MODE = FALSE
       \/ variant = "mock" /\ TEST_MODE \in BOOLEAN
    /\ InitCommon

-----------------------------------------------------------------------------
(* The environment's button *)

Press ==
    /\ ~btn /\ pc # "exited"
    /\ btn' = TRUE /\ attemptsThisPress' = 0
    /\ UNCHANGED << cfgVars, sigVars,
                    detVars, errVars, execVars, pc, button_pressed,
                    led, procs, exc, history >>

Release ==
    /\ btn /\ pc # "exited"
    /\ btn' = FALSE
    /\ UNCHANGED << cfgVars, sigVars,
                    detVars, errVars, execVars, pc, button_pressed,
                    led, procs, exc, history, attemptsThisPress >>

\* a detection pass starts: the locals of the previous pass are dead
NewAttempt ==
    /\ attemptsThisPress < MaxAttempts
    /\ attemptsThisPress' = attemptsThisPress + 1
    /\ history' = << "Detecting" >>
    /\ attached' = << >> /\ devices' = << >>
    /\ source' = NoDevice /\ dest' = NoDevice
    /\ valid' = NoVerdict /\ sizes' = << 0, 0 >> /\ sectors' = << 0, 0 >>
    /\ procs' = {}
    /\ parts' = << >> /\ k' = 0 /\ source_mounted' = FALSE
    /\ fstype' = NoFs /\ dest_parts' = << >> /\ unflushed' = FALSE
    /\ mounts' = 0 /\ umounts' = 0
    /\ UNCHANGED mounted

\* error_pattern is entered, to return to r
EnterError(r) ==
    /\ pc' = "error_pattern" /\ ret' = r
    /\ flash' = 0 /\ flashOn' = FALSE
    /\ history' = Append(history, "Error")

-----------------------------------------------------------------------------
(* SDCardCloner.main_loop *)

\* an iteration that finds the button up: blink, sleep 0.1
SDCardCloner_poll_idle ==
    /\ variant = "prod" /\ pc = "poll" /\ ~btn
    /\ \E phase \in BOOLEAN : led' = SDCardCloner_blink(led, phase)
    /\ UNCHANGED << cfgVars, sigVars, envVars, detVars, errVars, execVars, pc,
                    button_pressed, procs, exc, history >>

\* an iteration that finds the button down: solid ready LED, detection starts
SDCardCloner_button_pressed ==
    /\ variant = "prod" /\ pc = "poll" /\ btn
    /\ NewAttempt
    /\ led' = led_on(led_off_all(led), LED_READY)
    /\ pc' = "detect"
    /\ UNCHANGED << cfgVars, sigVars, errVars, btn, button_pressed, exc >>

\* devices = self.detect_devices(); if not devices: error_pattern(); continue
SDCardCloner_detect ==
    /\ variant = "prod" /\ pc = "detect"
    /\ \E att \in AttachedLists, listable \in BOOLEAN :
         /\ listable \/ att = << >>
         /\ attached' = att
         /\ devices' = SDCardCloner_detect_devices(att, listable)
    /\ IF devices' = << >>
       THEN EnterError("continue")
       ELSE pc' = "identify" /\ UNCHANGED << errVars, history >>
    /\ UNCHANGED << cfgVars, sigVars,
                    envVars, execVars, button_pressed, led, source,
                    dest, valid, sizes, sectors, procs, exc >>

\* source, dest = self.identify_source_dest(devices); the sector counts
\* behind the pair are kept for reference
SDCardCloner_identify ==
    /\ variant = "prod" /\ pc = "identify"
    /\ LET pair == SDCardCloner_identify_source_dest(devices)
       IN  /\ source' = pair[1] /\ dest' = pair[2]
           /\ IF pair[1] = NoDevice \/ pair[2] = NoDevice
              THEN /\ EnterError("continue")
                   /\ UNCHANGED sectors
              ELSE /\ pc' = "validate"
                   /\ sectors' = << SectorsOf(attached, pair[1].name),
                                    SectorsOf(attached, pair[2].name) >>
                   /\ UNCHANGED << errVars, history >>
    /\ UNCHANGED attached
    /\ UNCHANGED << cfgVars, sigVars,
                    envVars, execVars, button_pressed, led, devices,
                    valid, sizes, procs, exc >>

\* if not self.validate_clone(source, dest): error_pattern(); continue.
\* /sys/block is not read again in this pass
SDCardCloner_validate ==
    /\ variant = "prod" /\ pc = "validate"
    /\ valid' = SDCardCloner_validate_clone(source, dest)
    /\ IF valid'.ok
       THEN /\ pc' = "clone_device"
            /\ history' = Append(history, "Cloning")
            /\ UNCHANGED errVars
       ELSE EnterError("continue")
    /\ attached' = << >>
    /\ UNCHANGED << cfgVars, sigVars,
                    envVars, execVars, button_pressed, led, devices,
                    source, dest, sizes, sectors, procs, exc >>

\* os.sync(): nothing written stays in the page cache
os_sync(dirty) == FALSE

\* clone_device up to the start of dd; Popen raising goes to the handler
SDCardCloner_clone_device ==
    /\ variant = "prod" /\ pc = "clone_device"
    /\ led' = led_on(led_off_all(led), LED_CLONING)
    /\ \E started \in BOOLEAN :
         IF started
         THEN pc' = "dd" /\ UNCHANGED << errVars, history >>
         ELSE EnterError("reraise")
    /\ UNCHANGED << cfgVars, sigVars,
                    envVars, detVars, execVars, button_pressed,
                    procs, exc >>

\* the output of dd is read to its end and process.wait() gives the status:
\* non-zero raises, zero is followed by os.sync() and the done LED
SDCardCloner_dd_exit ==
    /\ variant = "prod" /\ pc = "dd"
    /\ \E rc \in {0, 1} :
         /\ procs' = procs \cup { Proc("dd", rc, 0, NoFs) }
         /\ IF rc # 0
            THEN /\ EnterError("reraise")
                 /\ unflushed' = TRUE
                 /\ UNCHANGED led
            ELSE /\ unflushed' = os_sync(TRUE)
                 /\ led' = led_on(led_off(led, LED_CLONING), LED_DONE)
                 /\ pc' = "done_sleep"
                 /\ history' = Append(history, "Done")
                 /\ UNCHANGED errVars
    /\ UNCHANGED << cfgVars, sigVars, envVars, detVars, button_pressed, exc,
                    parts, k, source_mounted, fstype, dest_parts, mounted,
                    mounts, umounts >>

\* time.sleep(5) is over, clone_device returns to the loop
SDCardCloner_done_elapsed ==
    /\ variant = "prod" /\ pc = "done_sleep"
    /\ pc' = "wait_release"
    /\ UNCHANGED << cfgVars, sigVars, envVars, detVars, errVars, execVars,
                    button_pressed, led, procs, exc, history >>

\* error_pattern: led_off_all(); sleep(0.2)
SDCardCloner_error_flash_off ==
    /\ variant = "prod" /\ pc = "error_pattern"
    /\ flash < ErrorFlashes /\ ~flashOn
    /\ led' = led_off_all(led)
    /\ flashOn' = TRUE
    /\ UNCHANGED << cfgVars, sigVars,
                    envVars, detVars, execVars, pc, ret, flash,
                    button_pressed, procs, exc, history >>

\* error_pattern: led_on(LED_READY); sleep(0.2)
SDCardCloner_error_flash_on ==
    /\ variant = "prod" /\ pc = "error_pattern"
    /\ flash < ErrorFlashes /\ flashOn
    /\ led' = led_on(led, LED_READY)
    /\ flashOn' = FALSE
    /\ flash' = flash + 1
    /\ UNCHANGED << cfgVars, sigVars, envVars, detVars, execVars, pc, ret,
                    button_pressed, procs, exc, history >>

\* the loop of error_pattern is over: led_off_all(), then back to the caller:
\* "continue" restarts the loop body, "reraise" is clone_device's handler
\* raising into main_loop's handler, which runs error_pattern again
SDCardCloner_error_pattern_end ==
    /\ variant = "prod" /\ pc = "error_pattern"
    /\ flash = ErrorFlashes
    /\ led' = led_off_all(led)
    /\ CASE ret = "continue" ->
              /\ pc' = "poll" /\ ret' = "none"
              /\ flash' = 0 /\ flashOn' = FALSE
              /\ UNCHANGED history
         [] ret = "reraise" -> EnterError("handler")
         [] OTHER ->
              /\ pc' = "wait_release" /\ ret' = "none"
              /\ flash' = 0 /\ flashOn' = FALSE
              /\ UNCHANGED history
    /\ UNCHANGED << cfgVars, sigVars,
                    envVars, detVars, execVars, button_pressed,
                    procs, exc >>

\* while GPIO.input(BTN_PIN) == GPIO.LOW: time.sleep(0.1)
SDCardCloner_wait_release ==
    /\ variant = "prod" /\ pc = "wait_release" /\ ~btn
    /\ pc' = "poll"
    /\ UNCHANGED << cfgVars, sigVars, envVars, detVars, errVars, execVars,
                    button_pressed, led, procs, exc, history >>

SDCardCloner_main_loop ==
    \/ SDCardCloner_poll_idle
    \/ SDCardCloner_button_pressed
    \/ SDCardCloner_detect
    \/ SDCardCloner_identify
    \/ SDCardCloner_validate
    \/ SDCardCloner_clone_device
    \/ SDCardCloner_dd_exit
    \/ SDCardCloner_done_elapsed
    \/ SDCardCloner_error_flash_off
    \/ SDCardCloner_error_flash_on
    \/ SDCardCloner_error_pattern_end
    \/ SDCardCloner_wait_release

-----------------------------------------------------------------------------
(* cloner_mock.py: GPIOMock and the pure parts of HeadlessCloner *)

LOW == 0
HIGH == 1

\* GPIOMock.input: the button pin reads LOW inside the simulated press
\* window (time.time() % 10 < 0.5), every other pin reads HIGH
GPIOMock_input(pin, window) ==
    IF pin = BTN_PIN /\ window THEN LOW ELSE HIGH

\* GPIOMock.output on an LED pin (every LED pin is set up)
GPIOMock_output(l, pin, state) == [ l EXCEPT ![pin] = (state # LOW) ]

HeadlessCloner_led_off_all(l) ==
    GPIOMock_output(GPIOMock_output(GPIOMock_output(l, LED_READY, LOW),
                                    LED_CLONING, LOW), LED_DONE, LOW)

\* GPIO.output(LED_READY, not GPIO.input(LED_READY))
HeadlessCloner_blink_ready(l) ==
    GPIOMock_output(l, LED_READY,
                    IF GPIOMock_input(LED_READY, FALSE) # LOW THEN LOW ELSE HIGH)

HeadlessCloner_blink(l, phase) ==
    IF phase THEN HeadlessCloner_blink_ready(l)
    ELSE GPIOMock_output(l, LED_READY, LOW)

\* GPIOMock.cleanup: pins.clear() leaves no pin with a level
GPIOMock_cleanup(l) == [ p \in LEDS |-> FALSE ]

ById(n) == [ dir |-> "/dev/disk/by-id", name |-> n ]

TestDevices ==
    << [ device |-> ById("usb-Test_Flash_123456-0:0"), size_gb |-> 3200,
         name |-> K_sdc, model |-> "USB_Flash_Drive", serial |-> "123456" ],
       [ device |-> ById("usb-Backup_Plus_789012-0:1"), size_gb |-> 100000,
         name |-> K_sdd, model |-> "Backup_Plus_HDD", serial |-> "789012" ],
       [ device |-> ById("usb-SD_Card_Reader_345678-0:0"), size_gb |-> 6400,
         name |-> K_sde, model |-> "SD_Card_Reader", serial |-> "345678" ] >>

\* HeadlessCloner.detect_devices: the canned list in test mode; otherwise
\* the loop over /sys/block returns the empty list at its first directory
HeadlessCloner_detect_devices(test_mode) ==
    IF test_mode THEN TestDevices ELSE << >>

\* HeadlessCloner.identify_source_dest: the pair of device paths
HeadlessCloner_identify_source_dest(devs) ==
    IF Len(devs) < 2 THEN << NoDevice, NoDevice >>
    ELSE LET sorted_devs == SortedBySize(devs)
         IN  << sorted_devs[1].device, sorted_devs[Len(sorted_devs)].device >>

\* HeadlessCloner.get_device_size: out is what blockdev --getsize64 printed,
\* Unreadable when it is no integer or the call raises
HeadlessCloner_get_device_size(out) == IF out = Unreadable THEN 0 ELSE out

\* HeadlessCloner.validate_clone, given blockdev's output for each device
HeadlessCloner_validate_clone(src, dst, outS, outD) ==
    IF src = NoDevice \/ dst = NoDevice
    THEN [ ok |-> FALSE, reason |-> "Missing devices" ]
    ELSE LET source_size == HeadlessCloner_get_device_size(outS)
             dest_size == HeadlessCloner_get_device_size(outD)
         IN  IF dest_size < source_size
             THEN [ ok |-> FALSE, reason |-> "Destination too small" ]
             ELSE [ ok |-> TRUE, reason |-> "OK" ]

\* what blockdev --getsize64 can print: a size in bytes, or nothing usable
BlockdevOutputs == { n * SectorSize : n \in SectorCounts } \cup { Unreadable }

-----------------------------------------------------------------------------
(* HeadlessCloner.main_loop *)

\* an iteration that does not start a pass: blink, sleep 0.1
HeadlessCloner_poll_idle ==
    /\ variant = "mock" /\ pc = "poll"
    /\ ~(GPIOMock_input(BTN_PIN, btn) = LOW /\ ~button_pressed)
    /\ \E phase \in BOOLEAN : led' = HeadlessCloner_blink(led, phase)
    /\ UNCHANGED << cfgVars, sigVars, envVars, detVars, errVars, execVars, pc,
                    button_pressed, procs, exc, history >>

\* GPIO.input(BTN_PIN) == GPIO.LOW and not button_pressed
HeadlessCloner_button_pressed ==
    /\ variant = "mock" /\ pc = "poll"
    /\ GPIOMock_input(BTN_PIN, btn) = LOW /\ ~button_pressed
    /\ NewAttempt
    /\ button_pressed' = TRUE
    /\ led' = GPIOMock_output(HeadlessCloner_led_off_all(led), LED_READY, HIGH)
    /\ pc' = "detect"
    /\ UNCHANGED << cfgVars, sigVars, errVars, btn, exc >>

\* devices = self.detect_devices(); if len(devices) >= 2: ... else: error
HeadlessCloner_detect ==
    /\ variant = "mock" /\ pc = "detect"
    /\ devices' = HeadlessCloner_detect_devices(TEST_MODE)
    /\ IF Len(devices') >= 2
       THEN pc' = "identify" /\ UNCHANGED << errVars, history >>
       ELSE EnterError("loop")
    /\ UNCHANGED << cfgVars, sigVars,
                    envVars, execVars, button_pressed, led, attached,
                    source, dest, valid, sizes, sectors, procs, exc >>

\* source, dest = self.identify_source_dest(devices)
HeadlessCloner_identify ==
    /\ variant = "mock" /\ pc = "identify"
    /\ LET pair == HeadlessCloner_identify_source_dest(devices)
       IN  source' = pair[1] /\ dest' = pair[2]
    /\ pc' = "validate"
    /\ UNCHANGED << cfgVars, sigVars,
                    envVars, errVars, execVars, button_pressed, led,
                    attached, devices, valid, sizes, sectors, procs, exc,
                    history >>

\* valid, msg = self.validate_clone(source, dest): blockdev runs twice
HeadlessCloner_validate ==
    /\ variant = "mock" /\ pc = "validate"
    /\ \E outS, outD \in BlockdevOutputs :
         /\ sizes' = << HeadlessCloner_get_device_size(outS),
                        HeadlessCloner_get_device_size(outD) >>
         /\ valid' = HeadlessCloner_validate_clone(source, dest, outS, outD)
    /\ procs' = procs \cup { Proc("blockdev", 0, 0, NoFs) }
    /\ IF valid'.ok
       THEN /\ pc' = "start_clone"
            /\ history' = Append(history, "Cloning")
            /\ UNCHANGED errVars
       ELSE EnterError("loop")
    /\ UNCHANGED << cfgVars, sigVars,
                    envVars, execVars, button_pressed, led, attached,
                    devices, source, dest, sectors, exc >>

\* start_clone: cloning LED on, ready LED off, then the first write to the
\* log inside the try; a failed write raises into the handler
HeadlessCloner_start_clone ==
    /\ variant = "mock" /\ pc = "start_clone"
    /\ led' = GPIOMock_output(GPIOMock_output(led, LED_CLONING, HIGH),
                              LED_READY, LOW)
    /\ \E logged \in BOOLEAN :
         pc' = IF logged THEN "clone" ELSE "clone_failed"
    /\ UNCHANGED << cfgVars, sigVars, envVars, detVars, errVars, execVars,
                    button_pressed, procs, exc, history >>

\* clone_with_rsync in test mode: ten one-second sleeps, no process
HeadlessCloner_clone_with_rsync_test ==
    /\ variant = "mock" /\ pc = "clone" /\ TEST_MODE
    /\ pc' = "clone_ok"
    /\ UNCHANGED << cfgVars, sigVars, envVars, detVars, errVars, execVars,
                    button_pressed, led, procs, exc, history >>

\* clone_with_rsync returned: the success write to the log, then the done
\* LED; a failed write raises into the handler
HeadlessCloner_clone_succeeded ==
    /\ variant = "mock" /\ pc = "clone_ok"
    /\ \E logged \in BOOLEAN :
         IF logged
         THEN /\ led' = GPIOMock_output(HeadlessCloner_led_off_all(led),
                                        LED_DONE, HIGH)
              /\ pc' = "done_sleep"
              /\ history' = Append(history, "Done")
         ELSE /\ pc' = "clone_failed"
              /\ UNCHANGED << led, history >>
    /\ UNCHANGED << cfgVars, sigVars, envVars, detVars, errVars, execVars,
                    button_pressed, procs, exc >>

\* time.sleep(5) is over; finally: led_off_all(); start_clone returns
HeadlessCloner_done_elapsed ==
    /\ variant = "mock" /\ pc = "done_sleep"
    /\ led' = HeadlessCloner_led_off_all(led)
    /\ pc' = "after_attempt"
    /\ UNCHANGED << cfgVars, sigVars, envVars, detVars, errVars, execVars,
                    button_pressed, procs, exc, history >>

\* except Exception: the failure is written to the log, then error_pattern.
\* A failed write raises out of the handler: finally turns the LEDs off,
\* the exception leaves main_loop and __main__ runs GPIO.cleanup()
HeadlessCloner_clone_failed ==
    /\ variant = "mock" /\ pc = "clone_failed"
    /\ \E logged \in BOOLEAN :
         IF logged
         THEN /\ EnterError("finally")
              /\ exc' = FALSE
              /\ UNCHANGED << led, gpio >>
         ELSE /\ exc' = TRUE
              /\ led' = GPIOMock_cleanup(HeadlessCloner_led_off_all(led))
              /\ gpio' = "released"
              /\ pc' = "exited"
              /\ UNCHANGED << errVars, history >>
    /\ UNCHANGED << cfgVars, interrupted, envVars, detVars, execVars,
                    button_pressed, procs >>

\* error_pattern: GPIO.output(LED_READY, GPIO.HIGH); time.sleep(0.2)
HeadlessCloner_error_flash_on ==
    /\ variant = "mock" /\ pc = "error_pattern"
    /\ flash < ErrorFlashes /\ ~flashOn
    /\ led' = GPIOMock_output(led, LED_READY, HIGH)
    /\ flashOn' = TRUE
    /\ UNCHANGED << cfgVars, sigVars,
                    envVars, detVars, execVars, pc, ret, flash,
                    button_pressed, procs, exc, history >>

\* error_pattern: GPIO.output(LED_READY, GPIO.LOW); time.sleep(0.2)
HeadlessCloner_error_flash_off ==
    /\ variant = "mock" /\ pc = "error_pattern"
    /\ flash < ErrorFlashes /\ flashOn
    /\ led' = GPIOMock_output(led, LED_READY, LOW)
    /\ flashOn' = FALSE
    /\ flash' = flash + 1
    /\ UNCHANGED << cfgVars, sigVars, envVars, detVars, execVars, pc, ret,
                    button_pressed, procs, exc, history >>

\* the loop is over and time.sleep(2) has elapsed; "finally" is start_clone's
\* handler, whose finally clause runs led_off_all()
HeadlessCloner_error_pattern_end ==
    /\ variant = "mock" /\ pc = "error_pattern"
    /\ flash = ErrorFlashes
    /\ led' = IF ret = "finally" THEN HeadlessCloner_led_off_all(led) ELSE led
    /\ pc' = "after_attempt" /\ ret' = "none"
    /\ flash' = 0 /\ flashOn' = FALSE
    /\ UNCHANGED << cfgVars, sigVars,
                    envVars, detVars, execVars, button_pressed,
                    procs, exc, history >>

\* if not TEST_MODE: wait for the release; button_pressed = False; sleep
HeadlessCloner_after_attempt ==
    /\ variant = "mock" /\ pc = "after_attempt"
    /\ TEST_MODE \/ GPIOMock_input(BTN_PIN, btn) # LOW
    /\ button_pressed' = FALSE
    /\ pc' = "poll"
    /\ UNCHANGED << cfgVars, sigVars,
                    envVars, detVars, errVars, execVars, led, procs,
                    exc, history >>

HeadlessCloner_main_loop ==
    \/ HeadlessCloner_poll_idle
    \/ HeadlessCloner_button_pressed
    \/ HeadlessCloner_detect
    \/ HeadlessCloner_identify
    \/ HeadlessCloner_validate
    \/ HeadlessCloner_error_flash_on
    \/ HeadlessCloner_error_flash_off
    \/ HeadlessCloner_error_pattern_end
    \/ HeadlessCloner_after_attempt

HeadlessCloner_start_clone_test ==
    \/ HeadlessCloner_start_clone
    \/ HeadlessCloner_clone_with_rsync_test
    \/ HeadlessCloner_clone_succeeded
    \/ HeadlessCloner_done_elapsed
    \/ HeadlessCloner_clone_failed

-----------------------------------------------------------------------------
(* HeadlessCloner.clone_with_rsync outside test mode, clone_filesystem and *)
(* raw_clone.  Every subprocess.run(..., check=True) raises on a non-zero  *)
(* status; an exception travels up to the handler of start_clone.          *)

\* the list of the dispatch without exfat
FsAware_no_exfat == { "ext4", "fat32", "vfat", "ntfs" }

\* fstype in ['ext4', 'fat32', 'vfat', 'ntfs', 'exfat']
FsAware == { "ext4", "fat32", "vfat", "ntfs", "exfat" }

\* the keys of mkfs_cmd in clone_filesystem
MkfsTypes == { "ext4", "vfat", "fat32", "ntfs", "exfat" }

TEMP_CLONE == "/mnt/temp_clone"
TEMP_SOURCE == "/mnt/temp_source"

\* part_num = part.name[-1]: the last decimal digit of the partition number
part_num(num) == num % 10

\* the partitions the glob can find, by partition number
PartNums == { 1, 10, 11 }
Partitions == [ num : PartNums ]

PartLists ==
    { s \in UNION { [1..n -> Partitions] : n \in 0..MaxParts } :
        \A i, j \in 1..Len(s) : i # j => s[i].num # s[j].num }

\* what blkid -s TYPE -o value can print, or the call raising
BlkidRaises == "<raises>"
BlkidOutputs ==
    { "ext4", "vfat", "fat32", "ntfs", "exfat", "btrfs", "", "EXT4",
      BlkidRaises }

\* str.lower() on the outputs above
lower(str) == IF str = "EXT4" THEN "ext4" ELSE str

\* HeadlessCloner.get_filesystem_type
HeadlessCloner_get_filesystem_type(out) ==
    IF out = BlkidRaises THEN "unknown" ELSE lower(out)

\* a process run for partition k of the loop (k = 0 before the loop)
Ran(tool, rc) == procs' = procs \cup { Proc(tool, rc, k, fstype) }

ExitCodes == { 0, 1 }

\* control stays inside the body of the loop
Goto(target) ==
    /\ pc' = target
    /\ UNCHANGED << parts, k, source_mounted, fstype, dest_parts >>

\* the body of the loop is done for partition k
NextPart ==
    /\ pc' = "part" /\ k' = k + 1 /\ source_mounted' = FALSE
    /\ fstype' = NoFs
    /\ UNCHANGED << parts, dest_parts >>

\* clone_with_rsync is left, by return or by exception: its locals are gone
Leave(target) ==
    /\ pc' = target
    /\ parts' = << >> /\ k' = 0 /\ source_mounted' = FALSE
    /\ fstype' = NoFs /\ dest_parts' = << >>

\* sgdisk run without check=True
HeadlessCloner_clone_with_rsync_sgdisk_unchecked ==
    /\ variant = "mock" /\ pc = "clone" /\ ~TEST_MODE
    /\ \E rc \in ExitCodes : Ran("sgdisk", rc)
    /\ Goto("partprobe")
    /\ UNCHANGED << cfgVars, sigVars, envVars, detVars, errVars,
                    button_pressed, led, exc, history, unflushed, mounted,
                    mounts, umounts >>

\* sgdisk -R dest source
HeadlessCloner_clone_with_rsync_sgdisk ==
    /\ variant = "mock" /\ pc = "clone" /\ ~TEST_MODE
    /\ \E rc \in ExitCodes :
         /\ Ran("sgdisk", rc)
         /\ IF rc = 0 THEN Goto("partprobe") ELSE Leave("clone_failed")
    /\ UNCHANGED << cfgVars, sigVars, envVars, detVars, errVars,
                    button_pressed, led, exc, history, unflushed, mounted,
                    mounts, umounts >>

\* partprobe dest, then the glob for the source's partitions
HeadlessCloner_clone_with_rsync_partprobe ==
    /\ variant = "mock" /\ pc = "partprobe"
    /\ \E rc \in ExitCodes :
         /\ Ran("partprobe", rc)
         /\ IF rc = 0
            THEN /\ \E ps \in PartLists : parts' = ps
                 /\ k' = 1
                 /\ pc' = "part"
                 /\ UNCHANGED << source_mounted, fstype, dest_parts >>
            ELSE Leave("clone_failed")
    /\ UNCHANGED << cfgVars, sigVars, envVars, detVars, errVars,
                    button_pressed, led, exc, history, unflushed, mounted,
                    mounts, umounts >>

\* the head of the loop over source_parts: dest_part is built from the last
\* character of the partition's name, get_filesystem_type runs blkid
\* on the partition and the type decides between the two copies
HeadlessCloner_clone_with_rsync_dispatch ==
    /\ variant = "mock" /\ pc = "part"
    /\ IF k > Len(parts)
       THEN Leave("clone_ok")
       ELSE \E out \in BlkidOutputs :
              /\ dest_parts' = Append(dest_parts, part_num(parts[k].num))
              /\ fstype' = HeadlessCloner_get_filesystem_type(out)
              /\ pc' = IF fstype' \in FsAware THEN "mkfs" ELSE "raw"
              /\ UNCHANGED << parts, k, source_mounted >>
    /\ UNCHANGED << cfgVars, sigVars, envVars, detVars, errVars,
                    button_pressed, led, procs, exc, history, unflushed,
                    mounted, mounts, umounts >>

\* raw_clone: get_device_size, whose result is not used, then dd bs=4M with
\* check=True; what dd wrote is left to the page cache
HeadlessCloner_raw_clone ==
    /\ variant = "mock" /\ pc = "raw"
    /\ \E rc \in ExitCodes :
         /\ Ran("dd", rc)
         /\ IF rc = 0 THEN NextPart ELSE Leave("clone_failed")
    /\ unflushed' = TRUE
    /\ UNCHANGED << cfgVars, sigVars, envVars, detVars, errVars,
                    button_pressed, led, exc, history, mounted, mounts,
                    umounts >>

\* clone_filesystem: mkfs for the type
HeadlessCloner_clone_filesystem_mkfs ==
    /\ variant = "mock" /\ pc = "mkfs"
    /\ IF fstype \in MkfsTypes
       THEN \E rc \in ExitCodes :
              /\ Ran("mkfs", rc)
              /\ IF rc = 0 THEN Goto("mount_dest") ELSE Leave("clone_failed")
       ELSE Goto("mount_dest") /\ UNCHANGED procs
    /\ UNCHANGED << cfgVars, sigVars, envVars, detVars, errVars,
                    button_pressed, led, exc, history, unflushed, mounted,
                    mounts, umounts >>

\* mount dest temp_mount, before the try
HeadlessCloner_clone_filesystem_mount_dest ==
    /\ variant = "mock" /\ pc = "mount_dest"
    /\ \E rc \in ExitCodes :
         /\ Ran("mount", rc)
         /\ IF rc = 0
            THEN /\ mounted' = mounted \cup { TEMP_CLONE }
                 /\ mounts' = mounts + 1
                 /\ Goto("mount_source")
            ELSE /\ Leave("clone_failed")
                 /\ UNCHANGED << mounted, mounts >>
    /\ UNCHANGED << cfgVars, sigVars, envVars, detVars, errVars,
                    button_pressed, led, exc, history, unflushed, umounts >>

\* if not os.path.ismount(source): mount source source_temp
HeadlessCloner_clone_filesystem_mount_source ==
    /\ variant = "mock" /\ pc = "mount_source"
    /\ \E ismount \in BOOLEAN :
         IF ismount
         THEN /\ Goto("rsync")
              /\ UNCHANGED << procs, mounted, mounts, exc >>
         ELSE \E rc \in ExitCodes :
                /\ Ran("mount", rc)
                /\ IF rc = 0
                   THEN /\ mounted' = mounted \cup { TEMP_SOURCE }
                        /\ mounts' = mounts + 1
                        /\ source_mounted' = TRUE
                        /\ pc' = "rsync"
                        /\ UNCHANGED << parts, k, fstype, dest_parts, exc >>
                   ELSE /\ exc' = TRUE
                        /\ Goto("umount_dest")
                        /\ UNCHANGED << mounted, mounts >>
    /\ UNCHANGED << cfgVars, sigVars, envVars, detVars, errVars,
                    button_pressed, led, history, unflushed, umounts >>

\* Popen(rsync), its output read to the end, process.wait(): the status is
\* not looked at; Popen or the decoding of a line of output may raise
HeadlessCloner_clone_filesystem_rsync ==
    /\ variant = "mock" /\ pc = "rsync"
    /\ \E raised \in BOOLEAN :
         IF raised
         THEN /\ exc' = TRUE
              /\ Goto("umount_dest")
              /\ UNCHANGED << procs, unflushed >>
         ELSE /\ \E rc \in ExitCodes : Ran("rsync", rc)
              /\ unflushed' = TRUE
              /\ Goto(IF source_mounted THEN "umount_source" ELSE "umount_dest")
              /\ UNCHANGED exc
    /\ UNCHANGED << cfgVars, sigVars, envVars, detVars, errVars,
                    button_pressed, led, history, mounted, mounts, umounts >>

\* if source_mounted: umount source_temp
HeadlessCloner_clone_filesystem_umount_source ==
    /\ variant = "mock" /\ pc = "umount_source"
    /\ \E rc \in ExitCodes :
         /\ Ran("umount", rc)
         /\ IF rc = 0
            THEN mounted' = mounted \ { TEMP_SOURCE } /\ UNCHANGED exc
            ELSE exc' = TRUE /\ UNCHANGED mounted
    /\ umounts' = umounts + 1
    /\ Goto("umount_dest")
    /\ UNCHANGED << cfgVars, sigVars, envVars, detVars, errVars,
                    button_pressed, led, history, unflushed, mounts >>

\* finally: umount temp_mount; os.rmdir(temp_mount); then the pending
\* exception goes on, or clone_filesystem returns to the loop
HeadlessCloner_clone_filesystem_umount_dest ==
    /\ variant = "mock" /\ pc = "umount_dest"
    /\ \E rc \in ExitCodes :
         /\ Ran("umount", rc)
         /\ mounted' = IF rc = 0 THEN mounted \ { TEMP_CLONE } ELSE mounted
         /\ IF rc = 0 /\ ~exc THEN NextPart ELSE Leave("clone_failed")
    /\ umounts' = umounts + 1
    /\ exc' = FALSE
    /\ UNCHANGED << cfgVars, sigVars, envVars, detVars, errVars,
                    button_pressed, led, history, unflushed, mounts >>

HeadlessCloner_clone_with_rsync ==
    \/ HeadlessCloner_clone_with_rsync_sgdisk
    \/ HeadlessCloner_clone_with_rsync_partprobe
    \/ HeadlessCloner_clone_with_rsync_dispatch
    \/ HeadlessCloner_raw_clone
    \/ HeadlessCloner_clone_filesystem_mkfs
    \/ HeadlessCloner_clone_filesystem_mount_dest
    \/ HeadlessCloner_clone_filesystem_mount_source
    \/ HeadlessCloner_clone_filesystem_rsync
    \/ HeadlessCloner_clone_filesystem_umount_source
    \/ HeadlessCloner_clone_filesystem_umount_dest

-----------------------------------------------------------------------------
(* KeyboardInterrupt.  It is no Exception: the handlers written            *)
(* "except Exception" let it pass, the bare "except:" of get_device_size   *)
(* and get_filesystem_type catch it.                                       *)

\* positions whose step calls get_device_size or get_filesystem_type
BareExceptPcs == { "validate", "part", "raw" }

\* positions inside the try of start_clone, whose finally is led_off_all()
StartClonePcs == CloningPcs \ { "clone_device", "dd", "start_clone" }

\* positions inside the try of clone_filesystem, whose finally runs umount
CloneFilesystemTryPcs ==
    { "mount_source", "rsync", "umount_source", "umount_dest" }

\* SDCardCloner.cleanup: led_off_all(), GPIO.cleanup()
SDCardCloner_cleanup(l) == led_off_all(l)

\* the interpreter ends: nothing of the loop's state is left
ProcessEnds ==
    /\ pc' = "exited" /\ ret' = "none"
    /\ button_pressed' = FALSE
    /\ flash' = 0 /\ flashOn' = FALSE
    /\ attached' = << >> /\ devices' = << >>
    /\ source' = NoDevice /\ dest' = NoDevice
    /\ valid' = NoVerdict /\ sizes' = << 0, 0 >> /\ sectors' = << 0, 0 >>
    /\ procs' = {} /\ exc' = FALSE
    /\ parts' = << >> /\ k' = 0 /\ source_mounted' = FALSE
    /\ fstype' = NoFs /\ dest_parts' = << >>
    /\ mounts' = 0 /\ umounts' = 0
    /\ history' = << >>

\* the signal arrives while the loop is at pc
Interrupt ==
    /\ pc # "exited"
    /\ interrupted' = TRUE
    /\ \/ \* inside get_device_size or get_filesystem_type: the bare except
          \* takes it, the call returns 0 or "unknown" and the loop goes on
          /\ variant = "mock" /\ pc \in BareExceptPcs
          /\ UNCHANGED << detVars, errVars, execVars, pc, button_pressed,
                          led, procs, exc, history, gpio >>
       \/ \* anywhere else it travels up: SDCardCloner.main_loop logs and
          \* runs cleanup(); in the mock the finally clauses on the way run
          \* and __main__ calls GPIO.cleanup()
          /\ led' = IF variant = "prod" THEN SDCardCloner_cleanup(led)
                    ELSE IF pc \in StartClonePcs
                    THEN GPIOMock_cleanup(HeadlessCloner_led_off_all(led))
                    ELSE GPIOMock_cleanup(led)
          /\ gpio' = "released"
          /\ mounted' \in IF pc \in CloneFilesystemTryPcs
                          THEN { mounted, mounted \ { TEMP_CLONE } }
                          ELSE { mounted }
          /\ UNCHANGED unflushed
          /\ ProcessEnds
    /\ UNCHANGED << cfgVars, envVars >>

-----------------------------------------------------------------------------
(* The two main loops under the button *)

Next ==
    \/ Press
    \/ Release
    \/ Interrupt
    \/ SDCardCloner_main_loop
    \/ HeadlessCloner_main_loop
    \/ HeadlessCloner_start_clone_test

Spec == Init /\ [][Next]_vars

-----------------------------------------------------------------------------
(* start_clone(source, dest) with TEST_MODE off, called as main_loop calls *)
(* it: the ready LED solid, a validated pair of device paths               *)

DevPath(n) == [ dir |-> "/dev", name |-> n ]

InitExec ==
    /\ variant = "mock" /\ TEST_MODE = FALSE
    /\ pc = "start_clone" /\ ret = "none"
    /\ btn = TRUE /\ button_pressed = TRUE
    /\ led = GPIOMock_output(AllOff, LED_READY, HIGH)
    /\ flash = 0 /\ flashOn = FALSE
    /\ attached = << >> /\ devices = << >>
    /\ \E s, d \in { DevPath(K_sda), DevPath(K_sdb) } :
         s # d /\ source = s /\ dest = d
    /\ valid = [ ok |-> TRUE, reason |-> "OK" ]
    /\ sizes = << 0, 0 >> /\ sectors = << 0, 0 >>
    /\ procs = {} /\ exc = FALSE
    /\ ExecIdle
    /\ interrupted = FALSE /\ gpio = "setup"
    /\ attemptsThisPress = 1
    /\ history = << "Detecting", "Cloning" >>

NextExec ==
    \/ HeadlessCloner_start_clone
    \/ HeadlessCloner_clone_with_rsync
    \/ HeadlessCloner_clone_succeeded
    \/ HeadlessCloner_done_elapsed
    \/ HeadlessCloner_clone_failed
    \/ HeadlessCloner_error_flash_on
    \/ HeadlessCloner_error_flash_off
    \/ HeadlessCloner_error_pattern_end

SpecExec == InitExec /\ [][NextExec]_vars

-----------------------------------------------------------------------------
(* identify_source_dest and validate_clone of both classes applied to      *)
(* every list of detected devices, and validate_clone to every pair of it  *)

ListDevs ==
    { DeviceDict(e, << >>) :
        e \in [ name : {K_sda, K_sdb, K_sdc, K_sdd}, is_dir : {TRUE},
                size : SectorCounts, model : {"SanDisk"},
                aliases : {<< >>} ] }

DeviceLists ==
    { s \in UNION { [1..n -> ListDevs] : n \in 0..MaxList } :
        \A i, j \in 1..Len(s) : i # j => s[i].name # s[j].name }

InitClassify ==
    /\ variant \in { "prod", "mock" } /\ TEST_MODE = FALSE
    /\ pc = "h_identify" /\ ret = "none"
    /\ btn = FALSE /\ button_pressed = FALSE
    /\ led = AllOff /\ flash = 0 /\ flashOn = FALSE
    /\ attached = << >>
    /\ devices \in DeviceLists
    /\ source = NoDevice /\ dest = NoDevice
    /\ valid = NoVerdict /\ sizes = << 0, 0 >> /\ sectors = << 0, 0 >>
    /\ procs = {} /\ exc = FALSE
    /\ ExecIdle
    /\ interrupted = FALSE /\ gpio = "setup"
    /\ attemptsThisPress = 0 /\ history = << >>

\* source, dest = identify_source_dest(devices)
Classify_identify ==
    /\ pc = "h_identify"
    /\ LET pair == IF variant = "prod"
                   THEN SDCardCloner_identify_source_dest(devices)
                   ELSE HeadlessCloner_identify_source_dest(devices)
       IN  /\ source' = pair[1] /\ dest' = pair[2]
           /\ pc' = IF pair[1] = NoDevice THEN "h_none" ELSE "h_validate"
    /\ UNCHANGED << cfgVars, sigVars,
                    envVars, errVars, execVars, button_pressed, led,
                    attached, devices, valid, sizes, sectors, procs, exc,
                    history >>

\* validate_clone(a, b) for any two detected devices; the list is dropped
Classify_validate ==
    /\ pc = "h_validate"
    /\ \E i, j \in 1..Len(devices) :
         /\ i # j
         /\ IF variant = "prod"
            THEN /\ source' = devices[i] /\ dest' = devices[j]
                 /\ valid' = SDCardCloner_validate_clone(devices[i], devices[j])
                 /\ UNCHANGED sizes
            ELSE /\ source' = devices[i].device /\ dest' = devices[j].device
                 /\ \E outS, outD \in BlockdevOutputs :
                      /\ sizes' = << HeadlessCloner_get_device_size(outS),
                                     HeadlessCloner_get_device_size(outD) >>
                      /\ valid' = HeadlessCloner_validate_clone(
                                      devices[i].device, devices[j].device,
                                      outS, outD)
    /\ devices' = << >>
    /\ pc' = "h_done"
    /\ UNCHANGED << cfgVars, sigVars,
                    envVars, errVars, execVars, button_pressed, led,
                    attached, sectors, procs, exc, history >>

NextClassify ==
    \/ Classify_identify
    \/ Classify_validate

SpecClassify == InitClassify /\ [][NextClassify]_vars

-----------------------------------------------------------------------------
(* Properties *)

Range(s) == { s[i] : i \in 1..Len(s) }

LitLeds == { p \in LEDS : led[p] }

\* the detected device a chosen source or destination stands for
DictOf(x) ==
    CHOOSE d \in Range(devices) : IF variant = "prod" THEN d = x ELSE d.device = x

Chosen(x) ==
    \E d \in Range(devices) : IF variant = "prod" THEN d = x ELSE d.device = x

DistinctSizes(devs) ==
    \A i, j \in 1..Len(devs) : i # j => devs[i].size_gb # devs[j].size_gb

\* the detection pass produced at least 2 devices and validation said ok
PairOk == Len(devices) >= 2 /\ valid.ok

InCloneFilesystem ==
    pc \in { "mkfs", "mount_dest", "mount_source", "rsync", "umount_source",
             "umount_dest" }

\* C1: a button that goes down once and stays down starts exactly one
\* detection pass in either main loop, whatever the outcome of the pass:
\* no second pass starts before the button was released and pressed again.
C1_OneAttemptPerPress == attemptsThisPress <= 1

\* C2: for a device list of length >= 2 with pairwise distinct sizes, in any
\* order, identify_source_dest returns the device of minimum size as source
\* and the device of maximum size as destination, never one in between.
C2_MinMaxSelected ==
    (pc = "h_validate" /\ DistinctSizes(devices)) =>
        /\ Chosen(source) /\ Chosen(dest)
        /\ \A d \in Range(devices) :
             /\ DictOf(source).size_gb <= d.size_gb
             /\ d.size_gb <= DictOf(dest).size_gb

C2_Witness ==
    /\ pc = "h_validate" /\ Len(devices) = 3 /\ DistinctSizes(devices)
    /\ DictOf(source) = devices[3] /\ DictOf(dest) = devices[2]

\* C3: Cloning is entered, and a copy, format, mount or partition-table
\* process is started, only when the pass produced at least 2 devices and
\* validation returned ok; in every other case the attempt goes
\* Detecting -> Error -> Ready and starts no such process.
C3_CloneOnlyWhenValid ==
    /\ (OperatorState = "Cloning" \/ "Cloning" \in Range(history)
        \/ CloneProcs # {}) => PairOk
    /\ (history # << >> /\ ~PairOk /\ OperatorState \in { "Error", "Ready" }) =>
          (history = << "Detecting", "Error" >> /\ CloneProcs = {})
    /\ (history # << >> /\ ~PairOk) =>
          OperatorState \in { "Detecting", "Error", "Ready" }

C3_Witness ==
    /\ OperatorState = "Ready" /\ Len(devices) >= 2 /\ ~valid.ok
    /\ history = << "Detecting", "Error" >>

\* C4: validate_clone returns false exactly when the source's size is
\* strictly greater than the destination's size, and true otherwise, equal
\* sizes included; the mock's false verdict has the reason
\* 'Destination too small'.
C4_ValidateIffNotLarger ==
    (pc = "h_done") =>
        IF variant = "prod"
        THEN valid.ok <=> ~(source.size_gb > dest.size_gb)
        ELSE /\ valid.ok <=> ~(sizes[1] > sizes[2])
             /\ ~valid.ok => valid.reason = "Destination too small"

C4_Witness ==
    /\ pc = "h_done" /\ variant = "prod" /\ valid.ok
    /\ source.size_gb = dest.size_gb /\ source # dest

\* C5: whenever a clone is started, the source's size in bytes (sector
\* count * 512) is at most the destination's size in bytes, also for sector
\* counts that round to the same 2-decimal gigabyte value.
C5_SourceFitsDestination ==
    (variant = "prod" /\ pc \in CloningPcs) =>
        sectors[1] * SectorSize <= sectors[2] * SectorSize

\* C6: when clone_filesystem has returned or raised, every mount it
\* performed has been matched by an unmount: the number of mounts performed
\* equals the number of unmounts performed, on every exit path.
C6_MountsMatched == ~InCloneFilesystem => mounts = umounts

\* C7: a clone attempt ends in Done only if every external process it ran
\* exited with status 0.
C7_DoneOnlyIfAllZero ==
    "Done" \in Range(history) => \A p \in procs : p.rc = 0

\* C8: no error of a clone attempt, a failed write to the log included,
\* terminates the main loop: the loop ends by an interrupt only.
C8_LoopNeverExits == (pc = "exited") => interrupted

\* C9: in every reachable state of either variant at most one of the three
\* indicators is on.
C9_OneIndicator == Cardinality(LitLeds) <= 1

\* a kernel name with one of the three prefixes the claim names
NamedLikeExcluded(name) ==
    \E p \in { P_loop, P_ram, P_mmcblk0 } : startswith(name, p)

\* C10: no device whose kernel name starts with 'loop', 'ram' or 'mmcblk0'
\* is in the list returned by detect_devices, nor chosen as source or
\* destination.
C10_NoExcludedDevice ==
    /\ \A d \in Range(devices) : ~NamedLikeExcluded(d.name)
    /\ \A x \in { source, dest } :
         (x # NoDevice /\ Chosen(x)) => ~NamedLikeExcluded(DictOf(x).name)

C10_Witness ==
    /\ pc = "validate" /\ variant = "prod"
    /\ \E i \in 1..Len(attached) : NamedLikeExcluded(attached[i].name)

\* the five type strings the claim names for the filesystem-aware copy
FilesystemAwareTypes == { "ext4", "vfat", "fat32", "ntfs", "exfat" }

\* C11: the dispatch of clone_with_rsync sends a partition to
\* clone_filesystem (format, mount, content copy) exactly when its type is
\* one of ext4, vfat, fat32, ntfs, exfat and to raw_clone for every other
\* string, '', 'unknown' and 'btrfs' included; a partition sent to the raw
\* copy is never formatted or mounted.
C11_DispatchByType ==
    /\ InCloneFilesystem => fstype \in FilesystemAwareTypes
    /\ pc = "raw" => fstype \notin FilesystemAwareTypes
    /\ \A p \in procs : p.part # 0 =>
         IF p.fstype \in FilesystemAwareTypes
         THEN p.tool \in { "mkfs", "mount", "rsync", "umount" }
         ELSE p.tool = "dd"

C11_Witness ==
    /\ \E p \in procs : p.tool = "dd" /\ p.fstype = "unknown"
    /\ \E p \in procs : p.tool = "mkfs" /\ p.fstype = "exfat"

\* C12: success is reported (success logged, done LED lit) only after the
\* copy process has ended with its status known and the buffered writes
\* were flushed to stable storage, for clone_device and for raw_clone.
C12_FlushedBeforeSuccess ==
    ("Done" \in Range(history) /\ \E p \in procs : p.tool = "dd") =>
        /\ \A p \in procs : p.tool = "dd" => p.rc = 0
        /\ ~unflushed

\* C13: an interrupt arriving in any state of the loop leads to a shutdown
\* with the three indicators off and the GPIO interface released.
C13_InterruptShutsDown ==
    interrupted => (pc = "exited" /\ gpio = "released" /\ LitLeds = {})

\* C14: a failure of the log sink during a clone attempt neither aborts the
\* attempt nor changes its outcome: the copy still runs after the first
\* write to the log, and a copy that succeeded ends in Done.
C14_LogFailureHarmless ==
    [][ /\ (pc = "start_clone" /\ pc' # "exited") => pc' = "clone"
        /\ (pc = "clone_ok" /\ pc' # "exited") => pc' = "done_sleep" ]_vars

\* C15: detect_devices fails softly: an entry whose size or model cannot
\* be read is left out and the scan goes on, every other entry that is a
\* non-excluded block device is in the returned list, with model 'Unknown'
\* when it has no model file.
C15_DetectFailsSoftly ==
    (variant = "prod" /\ pc = "identify") =>
        \A i \in 1..Len(attached) :
          LET e == attached[i]
              listed == { d \in Range(devices) : d.name = e.name }
          IN  (e.is_dir /\ ~NamedLikeExcluded(e.name)) =>
                IF e.size = Unreadable \/ e.model = ModelUnreadable
                THEN listed = {}
                ELSE /\ Cardinality(listed) = 1
                     /\ \A d \in listed :
                          d.model = IF e.model = NoModelFile THEN "Unknown"
                                    ELSE e.model

C15_Witness ==
    /\ variant = "prod" /\ pc = "identify"
    /\ \E i, j \in 1..Len(attached) :
         /\ i < j
         /\ attached[i].size = Unreadable \/ attached[i].model = ModelUnreadable
         /\ \E d \in Range(devices) :
              d.name = attached[j].name /\ d.model = "Unknown"

\* C18: the identifier recorded for a detected device is the by-id path
\* whenever a by-id alias of the device exists and the kernel-name path
\* only when none exists; a device reachable under both appears once.
C18_StableIdentifier ==
    (variant = "prod" /\ pc = "identify") =>
        /\ \A d \in Range(devices) : \A i \in 1..Len(attached) :
             attached[i].name = d.name =>
               (d.device.dir = "/dev/disk/by-id" <=> attached[i].aliases # << >>)
        /\ \A i, j \in 1..Len(devices) :
             i # j => devices[i].name # devices[j].name

\* the partition-level processes: those run inside the loop
PartitionProcs == { p \in procs : p.part # 0 }

\* C16: after a process of the partition-aware clone failed on partition k
\* nothing is started on a later partition, what is still mounted gets
\* unmounted, and the attempt is reported as failed.
C16_AbortAfterFailure ==
    /\ \A p, q \in PartitionProcs : p.rc # 0 => q.part <= p.part
    /\ (\E p \in procs : p.rc # 0) => "Done" \notin Range(history)
    /\ (pc \in { "clone_failed", "error_pattern", "after_attempt" }
        /\ \A p \in procs : p.tool = "umount" => p.rc = 0) => mounted = {}

\* C17: the partition table is replicated first (sgdisk), then re-read
\* (partprobe), and only then is a partition formatted, mounted or copied;
\* when either of the two fails nothing is started on any partition.
C17_TableBeforePartitions ==
    LET done(t) == \E p \in procs : p.tool = t /\ p.rc = 0
        failed(t) == \E p \in procs : p.tool = t /\ p.rc # 0
        ran(t) == done(t) \/ failed(t)
    IN  /\ ran("partprobe") => done("sgdisk")
        /\ (PartitionProcs # {} \/ InCloneFilesystem \/ pc = "raw") =>
              done("sgdisk") /\ done("partprobe")
        /\ (failed("sgdisk") \/ failed("partprobe")) => PartitionProcs = {}
        /\ failed("sgdisk") => ~ran("partprobe")

C17_Witness ==
    /\ \E p \in procs : p.tool = "rsync"
    /\ \E p \in procs : p.tool = "dd"
    /\ \E p \in procs : p.tool = "partprobe" /\ p.rc = 0

\* positions of the devices of smallest and of largest size in the list
Smallest(devs) ==
    { i \in 1..Len(devs) : \A j \in 1..Len(devs) :
        devs[i].size_gb <= devs[j].size_gb }

Largest(devs) ==
    { i \in 1..Len(devs) : \A j \in 1..Len(devs) :
        devs[j].size_gb <= devs[i].size_gb }

First(S) == CHOOSE i \in S : \A j \in S : i <= j

Last(S) == CHOOSE i \in S : \A j \in S : j <= i

\* C19: identify_source_dest breaks ties by first-seen order: of several
\* devices of the smallest size the one listed first is the source, and of
\* several devices of the largest size the one listed first is the
\* destination.
C19_FirstSeenWins ==
    (pc = "h_validate") =>
        /\ DictOf(source) = devices[First(Smallest(devices))]
        /\ DictOf(dest) = devices[First(Largest(devices))]

\* C19 as the code has it: of several devices of the smallest size the one
\* listed first is the source, of several devices of the largest size the
\* one listed last is the destination.
C19_FirstSmallestLastLargest ==
    (pc = "h_validate") =>
        /\ DictOf(source) = devices[First(Smallest(devices))]
        /\ DictOf(dest) = devices[Last(Largest(devices))]

C19_Witness ==
    /\ pc = "h_validate" /\ Len(devices) = 3
    /\ Smallest(devices) = { 1, 2, 3 } /\ Largest(devices) = { 1, 2, 3 }
    /\ DictOf(source) = devices[1] /\ DictOf(dest) = devices[3]

\* C20: when identify_source_dest succeeds on a list of at least 2 distinct
\* devices, source and destination are two different devices, also when
\* some or all of the sizes are equal.
C20_SourceIsNotDestination ==
    (pc = "h_validate") =>
        /\ source # dest
        /\ DictOf(source).name # DictOf(dest).name
        /\ DictOf(source).device # DictOf(dest).device

C20_Witness ==
    /\ pc = "h_validate" /\ Len(devices) = 2
    /\ devices[1].size_gb = devices[2].size_gb
    /\ source # NoDevice /\ dest # NoDevice

\* the number of runs of error_pattern in the current attempt
ErrorRuns == Cardinality({ i \in 1..Len(history) : history[i] = "Error" })

\* C21: a failed attempt runs the error sequence of 5 flashes exactly once
\* before it is back in Ready, whichever step failed.
C21_ErrorPatternOnce ==
    /\ ErrorRuns <= 1
    /\ (OperatorState = "Ready" /\ history # << >>
        /\ "Done" \notin Range(history)) => ErrorRuns = 1

\* C22: in SDCardCloner the pair returned by identify_source_dest for a
\* list of at least 2 devices always passes validate_clone, so the branch
\* of main_loop for a failed validation is never taken.
C22_ValidationNeverFails ==
    (variant = "prod") =>
        /\ (pc = "validate") => source.size_gb <= dest.size_gb
        /\ (valid # NoVerdict) => valid.ok
        /\ (Len(devices) >= 2 /\ OperatorState \in { "Error", "Ready" }) =>
              "Cloning" \in Range(history)

C22_Witness ==
    /\ variant = "prod" /\ pc = "clone_device" /\ valid.ok
    /\ Len(devices) = 3 /\ source.size_gb < dest.size_gb

\* C23: clone_with_rsync copies source partition i to destination
\* partition i, numbers of two digits included, and never writes two
\* source partitions to one destination partition.
C23_PartitionNumberKept ==
    /\ \A j \in 1..Len(dest_parts) : dest_parts[j] = parts[j].num
    /\ \A i, j \in 1..Len(dest_parts) :
         i # j => dest_parts[i] # dest_parts[j]

=============================================================================
